---- MODULE Spec2Model ----
(***************************************************************************)
(* NutriSnap backend: the AI Council pipeline (services/ai_council.py)     *)
(* and the request handlers that drive it (main.py).                       *)
(*                                                                         *)
(* Python floats are IEEE-754 binary64.  They are modelled exactly: a      *)
(* float is a sign and a magnitude, the magnitude an integer number of     *)
(* units of 2^-60 held in four limbs of 20 bits (least significant first). *)
(* Every binary64 value v with v = 0 or 2^-8 <= |v| < 2^19 is a whole      *)
(* number of such units, and so is every exact sum or difference of two of *)
(* them; Round53 then rounds as the hardware does (53 significant bits, to *)
(* nearest, ties to even).                                                 *)
(***************************************************************************)
EXTENDS Integers, Sequences, FiniteSets, TLC

\* ------------------------------------------------------------------------
\* binary64 arithmetic
\* ------------------------------------------------------------------------

MantBits == 53

LimbBits == 20

Base == 2^LimbBits

ZeroMag == <<0, 0, 0, 0>>

\* a + b on magnitudes; the top limb absorbs the last carry
AddMag(a, b) ==
  LET s1 == a[1] + b[1]
      s2 == a[2] + b[2] + (s1 \div Base)
      s3 == a[3] + b[3] + (s2 \div Base)
      s4 == a[4] + b[4] + (s3 \div Base)
  IN  <<s1 % Base, s2 % Base, s3 % Base, s4>>

\* a - b on magnitudes, for a >= b
SubMag(a, b) ==
  LET d1 == a[1] - b[1]
      d2 == a[2] - b[2] + (d1 \div Base)
      d3 == a[3] - b[3] + (d2 \div Base)
      d4 == a[4] - b[4] + (d3 \div Base)
  IN  <<d1 % Base, d2 % Base, d3 % Base, d4>>

\* -1, 0, 1 as a < b, a = b, a > b
CmpMag(a, b) ==
  IF a[4] # b[4] THEN (IF a[4] < b[4] THEN -1 ELSE 1)
  ELSE IF a[3] # b[3] THEN (IF a[3] < b[3] THEN -1 ELSE 1)
  ELSE IF a[2] # b[2] THEN (IF a[2] < b[2] THEN -1 ELSE 1)
  ELSE IF a[1] # b[1] THEN (IF a[1] < b[1] THEN -1 ELSE 1)
  ELSE 0

\* a * c for a small factor c
MulSmall(a, c) ==
  LET p1 == a[1] * c
      p2 == a[2] * c + (p1 \div Base)
      p3 == a[3] * c + (p2 \div Base)
      p4 == a[4] * c + (p3 \div Base)
  IN  <<p1 % Base, p2 % Base, p3 % Base, p4>>

\* number of significant bits of a non-negative integer below 2^31
RECURSIVE BitLenInt(_)
BitLenInt(n) == IF n = 0 THEN 0 ELSE 1 + BitLenInt(n \div 2)

BitLen(a) ==
  IF a[4] # 0 THEN 3 * LimbBits + BitLenInt(a[4])
  ELSE IF a[3] # 0 THEN 2 * LimbBits + BitLenInt(a[3])
  ELSE IF a[2] # 0 THEN LimbBits + BitLenInt(a[2])
  ELSE BitLenInt(a[1])

\* 2^d as a magnitude, 0 <= d < 2 * LimbBits
Pow2Mag(d) ==
  IF d < LimbBits THEN <<2^d, 0, 0, 0>> ELSE <<0, 2^(d - LimbBits), 0, 0>>

\* Round a magnitude to MantBits significant bits, to nearest, ties to even.
\* sticky says that the exact value lies strictly above a (a was truncated).
Round53(a, sticky) ==
  LET n == BitLen(a)
      d == n - MantBits
  IN  IF d <= 0 THEN a
      ELSE
        LET lowd == IF d <= LimbBits THEN a[1] % (2^d)
                    ELSE (a[2] % (2^(d - LimbBits))) * Base + a[1]
            half == 2^(d - 1)
            qodd == IF d < LimbBits THEN ((a[1] \div (2^d)) % 2) = 1
                    ELSE ((a[2] \div (2^(d - LimbBits))) % 2) = 1
            down == IF d <= LimbBits
                    THEN <<a[1] - (a[1] % (2^d)), a[2], a[3], a[4]>>
                    ELSE <<0, a[2] - (a[2] % (2^(d - LimbBits))), a[3], a[4]>>
            up   == lowd > half \/ (lowd = half /\ (sticky \/ qodd))
        IN  IF up THEN AddMag(down, Pow2Mag(d)) ELSE down

\* a float: sign and magnitude; zero is kept non-negative (0.0 == -0.0)
MkFloat(neg, mag) == [neg |-> neg /\ mag # ZeroMag, mag |-> mag]

FZero == MkFloat(FALSE, ZeroMag)

\* the float nearest to num / den, for integers num and den, den in 1..100
\* (how a decimal literal or a JSON number becomes a float)
FloatOfRatio(num, den) ==
  LET n  == IF num < 0 THEN -num ELSE num
      q4 == n \div den
      r4 == n % den
      q3 == (r4 * Base) \div den
      r3 == (r4 * Base) % den
      q2 == (r3 * Base) \div den
      r2 == (r3 * Base) % den
      q1 == (r2 * Base) \div den
      r1 == (r2 * Base) % den
  IN  MkFloat(num < 0, Round53(<<q1, q2, q3, q4>>, r1 # 0))

FloatOfInt(n) == FloatOfRatio(n, 1)

\* x + y (float.__add__)
FAdd(x, y) ==
  IF x.neg = y.neg
  THEN MkFloat(x.neg, Round53(AddMag(x.mag, y.mag), FALSE))
  ELSE LET c == CmpMag(x.mag, y.mag)
       IN  IF c = 0 THEN FZero
           ELSE IF c > 0 THEN MkFloat(x.neg, Round53(SubMag(x.mag, y.mag), FALSE))
           ELSE MkFloat(y.neg, Round53(SubMag(y.mag, x.mag), FALSE))

FNeg(x) == MkFloat(~x.neg, x.mag)

\* x - y (float.__sub__)
FSub(x, y) == FAdd(x, FNeg(y))

\* x >= 0
FGe0(x) == ~x.neg

\* the integer nearest to 10 * x, ties to the even integer: the decimal digits
\* that round(x, 1) keeps
Tenths(x) ==
  LET t    == MulSmall(x.mag, 10)
      k    == t[4]
      hb   == Base \div 2
      more == t[3] > hb \/ (t[3] = hb /\ (t[2] # 0 \/ t[1] # 0))
      tie  == t[3] = hb /\ t[2] = 0 /\ t[1] = 0
      m    == IF more \/ (tie /\ k % 2 = 1) THEN k + 1 ELSE k
  IN  IF x.neg THEN -m ELSE m

\* round(x, 1): x correctly rounded to one decimal, as a float again
PyRound1(x) == FloatOfRatio(Tenths(x), 10)

\* ------------------------------------------------------------------------
\* text: a string is a sequence of pieces; concatenation is \o
\* ------------------------------------------------------------------------

\* needle in text (str.__contains__), for a needle that is one piece
Contains(text, needle) == \E i \in DOMAIN text : text[i] = needle

\* str(response.status_code)
StatusText(status) ==
  CASE status = 200 -> "200"
    [] status = 401 -> "401"
    [] status = 500 -> "500"
    [] OTHER -> "status"

\* ------------------------------------------------------------------------
\* NutritionCalculator (CalorieNinjas)
\* ------------------------------------------------------------------------

HTTP_OK == 200

NO_ITEMS == "No food items recognized"

NoItemsMessage ==
  <<NO_ITEMS, ". Please simplify the description (e.g., 'chickpea soup 300ml' instead of 'Hlalem').">>

TimeoutMessage == <<"CalorieNinjas API timeout. Please try again.">>

\* A JSON number of the provider's reply, written with two decimals and given
\* here in hundredths, as the float response.json() makes of it
NumberOfJSON(hundredths) == FloatOfRatio(hundredths, 100)

\* item.get(key, 0)
ItemGet(item, key) ==
  IF key \in DOMAIN item THEN NumberOfJSON(item[key]) ELSE FZero

\* sum(item.get(key, 0) for item in items): left to right, from 0
RECURSIVE SumUpTo(_, _, _)
SumUpTo(items, key, n) ==
  IF n = 0 THEN FZero
  ELSE FAdd(SumUpTo(items, key, n - 1), ItemGet(items[n], key))

\* (mutant) only the first item is taken
SumFieldFirstItem(items, key) == SumUpTo(items, key, 1)

SumField(items, key) == SumUpTo(items, key, Len(items))

\* the returned dict of calculate_nutrition
NutritionOf(items) ==
  [calories |-> PyRound1(SumField(items, "calories")),
   protein  |-> PyRound1(SumField(items, "protein_g")),
   carbs    |-> PyRound1(SumField(items, "carbohydrates_total_g")),
   fats     |-> PyRound1(SumField(items, "fat_total_g"))]

\* (mutant) an empty item list is summed like any other
NutritionTryWithoutEmptyCheck(resp) ==
  IF resp.kind = "timeout" THEN [exc |-> "TimeoutException", msg |-> resp.text]
  ELSE IF resp.kind = "network" THEN [exc |-> "Exception", msg |-> resp.text]
  ELSE IF resp.status # HTTP_OK
    THEN [exc |-> "Exception",
          msg |-> <<"CalorieNinjas API error: ", StatusText(resp.status), " - ">> \o resp.text]
  ELSE IF resp.kind = "badjson"
    THEN [exc |-> "Exception", msg |-> <<"Expecting value: line 1 column 1 (char 0)">>]
  ELSE [exc |-> "none", value |-> NutritionOf(resp.items)]

\* What the try block of calculate_nutrition ends in, given what client.get
\* did: [exc |-> "none", value] on return, else the exception raised and its text.
\* resp.kind: "timeout" (httpx.TimeoutException), "network" (another httpx
\* error), "http" (a response: status, text, and for a JSON body its items),
\* "badjson" (a response whose body is not JSON).
NutritionTry(resp) ==
  IF resp.kind = "timeout" THEN [exc |-> "TimeoutException", msg |-> resp.text]
  ELSE IF resp.kind = "network" THEN [exc |-> "Exception", msg |-> resp.text]
  ELSE IF resp.status # HTTP_OK
    THEN [exc |-> "Exception",
          msg |-> <<"CalorieNinjas API error: ", StatusText(resp.status), " - ">> \o resp.text]
  ELSE IF resp.kind = "badjson"
    THEN [exc |-> "Exception", msg |-> <<"Expecting value: line 1 column 1 (char 0)">>]
  ELSE IF resp.items = <<>> THEN [exc |-> "Exception", msg |-> NoItemsMessage]
  ELSE [exc |-> "none", value |-> NutritionOf(resp.items)]

\* (mutant) no clause for httpx.TimeoutException: a timeout is wrapped like
\* any other exception
NutritionExceptWithoutTimeout(t) ==
  IF Contains(t.msg, NO_ITEMS) THEN [ok |-> FALSE, msg |-> t.msg]
  ELSE [ok |-> FALSE, msg |-> <<"Nutrition calculation failed: ">> \o t.msg]

\* The except clauses of calculate_nutrition
NutritionExcept(t) ==
  IF t.exc = "TimeoutException" THEN [ok |-> FALSE, msg |-> TimeoutMessage]
  ELSE IF Contains(t.msg, NO_ITEMS) THEN [ok |-> FALSE, msg |-> t.msg]
  ELSE [ok |-> FALSE, msg |-> <<"Nutrition calculation failed: ">> \o t.msg]

\* calculate_nutrition, as a function of what the provider did
calculate_nutrition(resp) ==
  LET t == NutritionTry(resp)
  IN  IF t.exc = "none" THEN [ok |-> TRUE, value |-> t.value]
      ELSE NutritionExcept(t)

\* ------------------------------------------------------------------------
\* AdvisorAgent and AICouncil.process_meal
\* ------------------------------------------------------------------------

\* str.strip(): leading and trailing whitespace pieces removed
Whitespace == {" ", "\n"}

RECURSIVE LStrip(_)
LStrip(text) ==
  IF text # <<>> /\ text[1] \in Whitespace THEN LStrip(Tail(text)) ELSE text

RECURSIVE RStrip(_)
RStrip(text) ==
  IF text # <<>> /\ text[Len(text)] \in Whitespace
  THEN RStrip(SubSeq(text, 1, Len(text) - 1)) ELSE text

Strip(text) == RStrip(LStrip(text))

\* (mutant) a failed Advisor is answered for with a stock sentence
generate_advice_or_default(reply) ==
  [ok |-> TRUE,
   value |-> IF reply.ok THEN Strip(reply.text) ELSE <<"Enjoy your meal.">>]

\* generate_advice, as a function of what the provider did:
\* reply.ok with the completion's text, or the error it raised
generate_advice(reply) ==
  IF reply.ok THEN [ok |-> TRUE, value |-> Strip(reply.text)]
  ELSE [ok |-> FALSE, msg |-> <<"Advisor Agent failed: ">> \o reply.text]

\* dict.get(key, default)
GetOr(doc, key, default) == IF key \in DOMAIN doc THEN doc[key] ELSE default

DEFAULT_CALORIE_GOAL == 2500

\* (mutant) the remaining calories are clamped at zero
RemainingClamped(user_profile, current_daily_total, nutrition) ==
  LET daily_goal == GetOr(user_profile, "daily_calorie_goal", DEFAULT_CALORIE_GOAL)
      new_total  == FAdd(current_daily_total, nutrition.calories)
      remaining  == FSub(FloatOfInt(daily_goal), new_total)
  IN  IF remaining.neg THEN FZero ELSE remaining

\* process_meal: remaining calories handed to the Advisor
Remaining(user_profile, current_daily_total, nutrition) ==
  LET daily_goal == GetOr(user_profile, "daily_calorie_goal", DEFAULT_CALORIE_GOAL)
      new_total  == FAdd(current_daily_total, nutrition.calories)
  IN  FSub(FloatOfInt(daily_goal), new_total)

\* process_meal: the keyword arguments of generate_advice
AdvisorArgs(verified_text, user_profile, current_daily_total, nutrition) ==
  [health_goal        |-> GetOr(user_profile, "health_goal", "maintain"),
   dish_name          |-> verified_text,
   total_calories     |-> nutrition.calories,
   remaining_calories |-> Remaining(user_profile, current_daily_total, nutrition)]

\* ------------------------------------------------------------------------
\* main.py: the store and the log_meal handler
\* ------------------------------------------------------------------------

\* Bounds of the model
NumReqs == 2

MaxTime == 2

DayTicks == 2

MaxItems == 3

MaxMeals == 3

\* ObjectId(s) succeeds
ObjectIdValid(s) == s # "not-an-object-id"

\* datetime.utcnow().replace(hour=0, minute=0, second=0, microsecond=0),
\* the clock counting in ticks of whole milliseconds, DayTicks of them to the
\* day
DayStart(t) == t - (t % DayTicks)

\* (mutant) the meals of the day are those after its first instant
FindTodayAfter(logs, uid, today_start) ==
  SelectSeq(logs, LAMBDA d : d.user_id = uid /\ d.timestamp > today_start)

\* find({"user_id": uid, "timestamp": {"$gte": today_start}}), in store order
RECURSIVE FindToday(_, _, _)
FindToday(logs, uid, today_start) ==
  IF logs = <<>> THEN <<>>
  ELSE LET rest == FindToday(Tail(logs), uid, today_start)
       IN  IF Head(logs).user_id = uid /\ Head(logs).timestamp >= today_start
           THEN <<Head(logs)>> \o rest ELSE rest

\* current_daily_total += meal["nutrition"]["calories"], from 0.0
RECURSIVE TotalCalories(_)
TotalCalories(meals) ==
  IF meals = <<>> THEN FZero
  ELSE FAdd(TotalCalories(SubSeq(meals, 1, Len(meals) - 1)),
            meals[Len(meals)].nutrition.calories)

\* microseconds past the last tick at which datetime.utcnow() is read
Micros == {0, 250}

\* readings that fall on a tick
OnTheTick == {0}

\* a datetime: the tick and the microseconds past it
Datetime(tick, us) == [tick |-> tick, us |-> us]

\* a datetime as the driver encodes it for the store (BSON UTC datetime):
\* whole milliseconds, the microseconds past them dropped
BSONDate(dt) == dt.tick

\* a stored datetime as the driver decodes it
DatetimeOfBSON(tick) == Datetime(tick, 0)

\* the meal log document as the driver encodes it for the store
BSONDocument(doc) == [doc EXCEPT !.timestamp = BSONDate(doc.timestamp)]

\* (mutant) one document per user: a later insert replaces the earlier one
insert_one_per_user(logs, doc) ==
  Append(SelectSeq(logs, LAMBDA d : d.user_id # doc.user_id),
         [doc EXCEPT !._id = Len(logs) + 1])

\* insert_one: the document is added under a fresh _id
insert_one(logs, doc) == Append(logs, [doc EXCEPT !._id = Len(logs) + 1])

\* NutritionData(**nutrition) validates (every field ge=0)
NutritionDataValid(n) ==
  FGe0(n.calories) /\ FGe0(n.protein) /\ FGe0(n.carbs) /\ FGe0(n.fats)

\* raise HTTPException(status_code, detail)
HTTPException(status_code, detail) ==
  [status |-> status_code, detail |-> detail, body |-> <<>>]

\* except Exception as e: raise HTTPException(500, f"Meal logging failed: {e}")
MealLoggingFailed(msg) == HTTPException(500, <<"Meal logging failed: ">> \o msg)

\* find_one({"_id": id}): the document, or None
NoUser == [_id |-> "None"]

find_one(docs, id) ==
  IF \E d \in docs : d._id = id THEN CHOOSE d \in docs : d._id = id ELSE NoUser

\* all sequences over S of length at most n
SeqsUpTo(S, n) == UNION {[1..k -> S] : k \in 0..n}

\* ------------------------------------------------------------------------
\* inputs
\* ------------------------------------------------------------------------

Reqs == 1..NumReqs

UserIdInputs == {"not-an-object-id", "u0", "u1"}

VerifiedTexts == {"grilled fish with salad, 300g"}

SeedUsers ==
  {[_id |-> "u1", username |-> "test_user", daily_calorie_goal |-> 2000,
    health_goal |-> "lose_weight"],
   [_id |-> "u2", username |-> "ali_tunis", daily_calorie_goal |-> 300,
    health_goal |-> "maintain"]}

\* provider items, numbers in hundredths
Fish == [calories |-> 35040, protein_g |-> 4000, carbohydrates_total_g |-> 1000,
         fat_total_g |-> 1200]

Odd == [calories |-> 210050, protein_g |-> 300, carbohydrates_total_g |-> -50]

ItemA == [calories |-> 8395, protein_g |-> 1520, carbohydrates_total_g |-> 0,
          fat_total_g |-> 215]

ItemB == [calories |-> 5530, protein_g |-> 110, carbohydrates_total_g |-> 1210,
          fat_total_g |-> 25]

ItemC == [calories |-> 24210, protein_g |-> 730, carbohydrates_total_g |-> 4480]

CalcItems == {Fish, Odd, ItemA, ItemB, ItemC}

ErrorTexts == {<<"quota exceeded">>, <<"{\"error\": \"", NO_ITEMS, "\"}">>}

\* what client.get can do, the JSON bodies holding the given item lists
ProviderResponses(itemLists, statuses) ==
     {[kind |-> "timeout", status |-> 0, text |-> <<"timed out">>, items |-> <<>>]}
  \cup {[kind |-> "network", status |-> 0, text |-> <<"All connection attempts failed">>,
         items |-> <<>>]}
  \cup {[kind |-> "http", status |-> st, text |-> t, items |-> <<>>] :
          st \in statuses, t \in ErrorTexts}
  \cup {[kind |-> "badjson", status |-> 200, text |-> <<"<html>">>, items |-> <<>>]}
  \cup {[kind |-> "http", status |-> 200, text |-> <<"{\"items\": ...}">>, items |-> its] :
          its \in itemLists}

\* the replies tried in the whole pipeline: every kind of failure, no items,
\* a meal, and a reply with a negative number in it
MealResponses == ProviderResponses({<<>>, <<Fish>>, <<Odd>>}, {500})

CalcResponses == ProviderResponses(SeqsUpTo(CalcItems, MaxItems), {401, 500})

AdvisorReplies ==
  {[ok |-> TRUE, text |-> <<" ", "Keep dinner light: vegetables and lean protein.", "\n">>],
   [ok |-> FALSE, text |-> <<"Request timed out.">>]}

\* the ids of the requests that arrive one after the other
AllUserIds == UserIdInputs \cup {"u2"}

NoResp == [kind |-> "none", status |-> 0, text |-> <<>>, items |-> <<>>]

NoResponse == [status |-> 0, detail |-> <<>>, body |-> <<>>]

NoRequest == [user_id |-> "", verified_text |-> "", image_url |-> "None"]

ZeroNutrition == [calories |-> FZero, protein |-> FZero, carbs |-> FZero, fats |-> FZero]

NoReply == [ok |-> FALSE, text |-> <<>>]

NotSeen ==
  [read_at |-> -1, user_id |-> "", today_start |-> 0, advisor_args |-> <<>>,
   reply |-> NoReply]

NoUpload == [content_type |-> <<>>, size |-> 0]

NoAnalyze ==
  [pc |-> "idle", image |-> NoUpload, calls |-> <<>>, reply |-> NoReply,
   response |-> NoResponse]

NoDashboard ==
  [pc |-> "idle", user_id |-> "", user |-> NoUser, today_start |-> 0,
   today_meals |-> <<>>, failed |-> <<>>, response |-> NoResponse]

NoLocals ==
  [user |-> NoUser, today_start |-> 0, today_meals |-> <<>>, current_daily_total |-> FZero,
   nutrition |-> ZeroNutrition, advisor_args |-> <<>>, meal_log |-> <<>>]

\* ------------------------------------------------------------------------
\* the AI Council, database.py and seed_db.py on their own: values
\* ------------------------------------------------------------------------

MaxCouncils == 2

MaxDbCalls == 4

MaxServed == 3

MaxRuns == 3

\* the invocations of analyze_image and process_meal
Councils == 1..MaxCouncils

\* ADVISOR_PROVIDER in the environment of the process ("unset": not there)
EnvValues == {"unset", "groq", "openrouter", "OpenRouter", "mistral"}

\* os.getenv(name, default)
Getenv(value, default) == IF value = "unset" THEN default ELSE value

\* str.lower()
Lower(s) == IF s = "OpenRouter" THEN "openrouter" ELSE s

\* self.provider = os.getenv("ADVISOR_PROVIDER", "groq").lower()
AdvisorAgent_provider(env) == Lower(Getenv(env, "groq"))

\* self.model.ainvoke([message]) of the Vision agent: ChatGoogleGenerativeAI
\* is built without a timeout and ainvoke is given none
VisionCall == [to |-> "gemini", explicit_timeout |-> FALSE, seconds |-> 0]

\* client.get(self.base_url, headers=headers, params=params, timeout=10.0)
NutritionCall == [to |-> "calorieninjas", explicit_timeout |-> TRUE, seconds |-> 10]

\* chain.ainvoke({"input": prompt}): ChatGroq is built without a timeout
\* and ainvoke is given none
GroqCall == [to |-> "groq", explicit_timeout |-> FALSE, seconds |-> 0]

\* httpx.AsyncClient(timeout=30.0), client.post(...)
OpenRouterCall == [to |-> "openrouter", explicit_timeout |-> TRUE, seconds |-> 30]

\* (mutant) OpenRouter is asked first and Groq as well
AdvisorQueriesBoth(provider) == <<OpenRouterCall, GroqCall>>

\* the provider calls of one generate_advice: _query_openrouter or _query_groq
AdvisorQueries(provider) ==
  IF provider = "openrouter" THEN <<OpenRouterCall>> ELSE <<GroqCall>>

NoInvocation ==
  [pc |-> "idle", kind |-> "none", provider |-> "none", calls |-> <<>>,
   advice_calls |-> 0, outcome |-> "none"]

NoCouncil == [env |-> "unset", inv |-> [i \in Councils |-> NoInvocation]]

\* _client = None, _database = None
NoDb == [client |-> "None", database |-> "None", calls |-> <<>>]

\* the database is connected: a client whose ping succeeded and is not closed
Connected(d) == d.client = "connected"

\* (mutant) a failing ping is printed and not raised again
connect_to_mongo_quietly(d, ping_ok) ==
  [globals |-> [d EXCEPT !.client = IF ping_ok THEN "connected" ELSE "unreachable",
                         !.database = "handle"],
   raised |-> FALSE]

\* connect_to_mongo: both globals are assigned, then the ping is awaited; a
\* failing ping is printed and raised again, the globals stay as assigned
connect_to_mongo(d, ping_ok) ==
  [globals |-> [d EXCEPT !.client = IF ping_ok THEN "connected" ELSE "unreachable",
                         !.database = "handle"],
   raised |-> ~ping_ok]

\* close_mongo_connection: the client, if there is one, is closed; neither
\* global is reset
close_mongo_connection(d) ==
  IF d.client # "None" THEN [d EXCEPT !.client = "closed"] ELSE d

\* get_database: RuntimeError if _database is None, else _database
get_database(d) ==
  IF d.database = "None"
  THEN [raised |-> TRUE, value |-> "RuntimeError"]
  ELSE [raised |-> FALSE, value |-> d.database]

\* the endpoints of the application
Endpoints == {"analyze-image", "log-meal", "dashboard"}

NoLife ==
  [pc |-> "created", handler |-> [r \in Reqs |-> "idle"], events |-> <<>>]

\* the document seed_database inserts (_id given by the store)
TestUser ==
  [_id |-> 0, username |-> "test_user", daily_calorie_goal |-> 2500,
   health_goal |-> "gain_muscle", height_cm |-> 175, weight_kg |-> 70]

\* users the collection may hold before seed_database first runs
OtherUser ==
  [_id |-> 1, username |-> "amira", daily_calorie_goal |-> 1800,
   health_goal |-> "lose_weight", height_cm |-> 162, weight_kg |-> 58]

EarlierTestUser ==
  [_id |-> 9, username |-> "test_user", daily_calorie_goal |-> 2000,
   health_goal |-> "maintain", height_cm |-> 175, weight_kg |-> 70]

SeedStores ==
  {<<>>, <<OtherUser>>, <<EarlierTestUser>>, <<OtherUser, EarlierTestUser>>}

\* find_one({"username": username}): the first such document, or None (here
\* a sequence of the one document, or of none)
find_one_by_username(store, username) ==
  LET hits == SelectSeq(store, LAMBDA d : d.username = username)
  IN  IF hits = <<>> THEN <<>> ELSE <<hits[1]>>

NoSeed == [pc |-> "idle", users |-> <<>>, runs |-> 0, outcomes |-> <<>>]

\* ------------------------------------------------------------------------
\* state
\* ------------------------------------------------------------------------

VARIABLES
  now,        \* the clock (datetime.utcnow()), in ticks
  users,      \* the users collection
  meal_logs,  \* the meal_logs collection, in insertion order
  pc,         \* per request: the await the handler is suspended at
  request,    \* per request: the LogMealRequest
  local,      \* per request: the handler's local variables
  response,   \* per request: the response or HTTPException it ended in
  got,        \* per request: what the nutrition provider did (history)
  hist,       \* per request: the provider and store calls made (history)
  seen,       \* per request: what was read and handed to the Advisor (history)
  analyze,    \* the analyze_image handler: its await, upload, calls and response
  dashboard,  \* the get_dashboard handler: its await, locals and response
  cnPc,       \* calculate_nutrition on its own: where the call stands
  cnResp,     \* calculate_nutrition on its own: what client.get did
  cnOut,      \* calculate_nutrition on its own: its outcome
  cnGets,     \* calculate_nutrition on its own: number of client.get calls
  council,    \* the AI Council on its own: ADVISOR_PROVIDER and the invocations
  db,         \* database.py: the globals _client and _database, and the calls made
  life,       \* the lifespan of the application and the requests it serves
  seed        \* seed_db.py: the users collection and the runs of seed_database

reqVars == <<now, users, meal_logs, pc, request, local, response, got, hist, seen>>

apiVars == <<analyze, dashboard>>

cnVars == <<cnPc, cnResp, cnOut, cnGets>>

sysVars == <<council, db, life, seed>>

vars == <<now, users, meal_logs, pc, request, local, response, got, hist, seen,
          analyze, dashboard, cnPc, cnResp, cnOut, cnGets, council, db, life, seed>>

InitServer ==
  /\ now = 0
  /\ users = SeedUsers
  /\ meal_logs = <<>>
  /\ pc = [r \in Reqs |-> "idle"]
  /\ request = [r \in Reqs |-> NoRequest]
  /\ local = [r \in Reqs |-> NoLocals]
  /\ response = [r \in Reqs |-> NoResponse]
  /\ got = [r \in Reqs |-> NoResp]
  /\ hist = [r \in Reqs |-> <<>>]
  /\ seen = [r \in Reqs |-> NotSeen]
  /\ analyze = NoAnalyze
  /\ dashboard = NoDashboard
  /\ cnPc = "idle"
  /\ cnResp = NoResp
  /\ cnOut = [ok |-> FALSE, msg |-> <<>>]
  /\ cnGets = 0

\* the server and its handlers, nothing else running
Init ==
  /\ InitServer
  /\ council = NoCouncil
  /\ db = NoDb
  /\ life = NoLife
  /\ seed = NoSeed

\* the handler of request r ends in resp; its locals die
Finish(r, resp, events) ==
  /\ pc' = [pc EXCEPT ![r] = "done"]
  /\ response' = [response EXCEPT ![r] = resp]
  /\ local' = [local EXCEPT ![r] = NoLocals]
  /\ hist' = [hist EXCEPT ![r] = hist[r] \o events]

\* the clock advances
Tick ==
  /\ now < MaxTime
  /\ now' = now + 1
  /\ UNCHANGED <<users, meal_logs, pc, request, local, response, got, hist, seen,
               apiVars, cnVars, sysVars>>

\* POST /log-meal arrives: the id is parsed and find_one is awaited
LogMealStart(r, user_ids) ==
  /\ pc[r] = "idle"
  /\ \E uid \in user_ids, text \in VerifiedTexts :
       /\ request' = [request EXCEPT ![r] =
            [user_id |-> uid, verified_text |-> text, image_url |-> "None"]]
       /\ IF ObjectIdValid(uid)
          THEN /\ pc' = [pc EXCEPT ![r] = "find_user"]
               /\ UNCHANGED <<response, local, hist>>
          ELSE Finish(r, HTTPException(400, <<"Invalid user_id format.">>), <<>>)
  /\ UNCHANGED <<now, users, meal_logs, got, seen, apiVars, cnVars, sysVars>>

\* find_one returns (or raises): the day starts, find is awaited
LogMealFindUser(r) ==
  /\ pc[r] = "find_user"
  /\ \/ Finish(r, MealLoggingFailed(<<"connection closed">>), <<"find_one_fail">>)
     \/ LET user == find_one(users, request[r].user_id)
        IN  IF user = NoUser
            THEN Finish(r, HTTPException(404, <<"User not found.">>), <<>>)
            ELSE /\ local' = [local EXCEPT ![r].user = user,
                                           ![r].today_start = DayStart(now)]
                 /\ pc' = [pc EXCEPT ![r] = "read_meals"]
                 /\ UNCHANGED <<response, hist>>
  /\ UNCHANGED <<now, users, meal_logs, request, got, seen, apiVars, cnVars, sysVars>>

\* the cursor over today's meals is read: the total is summed and
\* process_meal awaits calculate_nutrition
LogMealReadMeals(r) ==
  /\ pc[r] = "read_meals"
  /\ \/ /\ Finish(r, MealLoggingFailed(<<"connection closed">>), <<"find_fail">>)
        /\ UNCHANGED seen
     \/ /\ LET today_meals == FindToday(meal_logs, local[r].user._id, local[r].today_start)
           IN  local' = [local EXCEPT ![r].today_meals = today_meals,
                                      ![r].current_daily_total = TotalCalories(today_meals)]
        /\ pc' = [pc EXCEPT ![r] = "nutrition"]
        /\ hist' = [hist EXCEPT ![r] = hist[r] \o <<"nutrition_call">>]
        /\ seen' = [seen EXCEPT ![r].read_at = Len(meal_logs),
                                ![r].user_id = local[r].user._id,
                                ![r].today_start = local[r].today_start]
        /\ UNCHANGED response
  /\ UNCHANGED <<now, users, meal_logs, request, got, apiVars, cnVars, sysVars>>

\* (mutant) the day's total is read again when the Advisor is called
CallAdvisorFreshTotal(r, nutrition, events) ==
  LET profile == [health_goal |-> GetOr(local[r].user, "health_goal", "maintain"),
                  daily_calorie_goal |->
                    GetOr(local[r].user, "daily_calorie_goal", DEFAULT_CALORIE_GOAL)]
      fresh == TotalCalories(FindToday(meal_logs, local[r].user._id, local[r].today_start))
  IN  /\ local' = [local EXCEPT
            ![r].nutrition = nutrition,
            ![r].current_daily_total = fresh,
            ![r].advisor_args =
               AdvisorArgs(request[r].verified_text, profile, fresh, nutrition)]
      /\ seen' = [seen EXCEPT ![r].advisor_args =
            AdvisorArgs(request[r].verified_text, profile, fresh, nutrition)]
      /\ pc' = [pc EXCEPT ![r] = "advisor"]
      /\ hist' = [hist EXCEPT ![r] = hist[r] \o events]
      /\ UNCHANGED response

\* process_meal goes on from a nutrition result to generate_advice
CallAdvisor(r, nutrition, events) ==
  LET profile == [health_goal |-> GetOr(local[r].user, "health_goal", "maintain"),
                  daily_calorie_goal |->
                    GetOr(local[r].user, "daily_calorie_goal", DEFAULT_CALORIE_GOAL)]
  IN  /\ local' = [local EXCEPT
            ![r].nutrition = nutrition,
            ![r].advisor_args =
               AdvisorArgs(request[r].verified_text, profile,
                           local[r].current_daily_total, nutrition)]
      /\ seen' = [seen EXCEPT ![r].advisor_args =
            AdvisorArgs(request[r].verified_text, profile,
                        local[r].current_daily_total, nutrition)]
      /\ pc' = [pc EXCEPT ![r] = "advisor"]
      /\ hist' = [hist EXCEPT ![r] = hist[r] \o events]
      /\ UNCHANGED response

\* (mutant) a failed Nutrition Step is swallowed and the Advisor is called anyway
LogMealNutritionSwallowed(r) ==
  /\ pc[r] = "nutrition"
  /\ \E resp \in MealResponses :
       LET out == calculate_nutrition(resp)
       IN  /\ got' = [got EXCEPT ![r] = resp]
           /\ IF out.ok
              THEN CallAdvisor(r, out.value, <<"nutrition_ok", "advisor_call">>)
              ELSE CallAdvisor(r, ZeroNutrition, <<"nutrition_fail", "advisor_call">>)
  /\ UNCHANGED <<now, users, meal_logs, request, apiVars, cnVars, sysVars>>

\* (mutant) a failed lookup is tried a second time
LogMealNutritionRetries(r) ==
  /\ pc[r] = "nutrition"
  /\ \E resp \in MealResponses :
       LET out == calculate_nutrition(resp)
           calls == {i \in DOMAIN hist[r] : hist[r][i] = "nutrition_call"}
       IN  /\ got' = [got EXCEPT ![r] = resp]
           /\ IF out.ok
              THEN CallAdvisor(r, out.value, <<"nutrition_ok", "advisor_call">>)
              ELSE IF Cardinality(calls) < 2
              THEN /\ hist' = [hist EXCEPT ![r] = hist[r] \o <<"nutrition_call">>]
                   /\ UNCHANGED <<pc, local, response, seen>>
              ELSE /\ Finish(r, MealLoggingFailed(out.msg), <<"nutrition_fail">>)
                   /\ UNCHANGED seen
  /\ UNCHANGED <<now, users, meal_logs, request, apiVars, cnVars, sysVars>>

\* process_meal after calculate_nutrition: an exception leaves process_meal
\* and log_meal turns it into a 500; a result goes on to generate_advice
LogMealNutrition(r) ==
  /\ pc[r] = "nutrition"
  /\ \E resp \in MealResponses :
       LET out == calculate_nutrition(resp)
       IN  /\ got' = [got EXCEPT ![r] = resp]
           /\ IF out.ok
              THEN CallAdvisor(r, out.value, <<"nutrition_ok", "advisor_call">>)
              ELSE /\ Finish(r, MealLoggingFailed(out.msg), <<"nutrition_fail">>)
                   /\ UNCHANGED seen
  /\ UNCHANGED <<now, users, meal_logs, request, apiVars, cnVars, sysVars>>

\* the meal log document of log_meal
MealLog(r, ai_advice, us) ==
  [_id |-> 0,
   user_id |-> local[r].user._id,
   timestamp |-> Datetime(now, us),
   dish_name |-> request[r].verified_text,
   image_url |-> request[r].image_url,
   nutrition |-> local[r].nutrition,
   ai_advice |-> ai_advice,
   by |-> r]

\* (mutant) the nutrition is stored before the Advisor has answered
LogMealAdvisorStoresFirst(r, replies, micros) ==
  /\ pc[r] = "advisor"
  /\ \E reply \in replies, us \in micros :
       LET out == generate_advice(reply)
       IN  /\ seen' = [seen EXCEPT ![r].reply = reply]
           /\ IF out.ok
              THEN /\ local' = [local EXCEPT ![r].meal_log = MealLog(r, out.value, us)]
                   /\ pc' = [pc EXCEPT ![r] = "insert"]
                   /\ hist' = [hist EXCEPT ![r] = hist[r] \o <<"advisor_ok", "insert_call">>]
                   /\ UNCHANGED <<response, meal_logs>>
              ELSE /\ meal_logs' = insert_one(meal_logs, BSONDocument(MealLog(r, <<>>, us)))
                   /\ Finish(r, MealLoggingFailed(out.msg), <<"advisor_fail">>)
  /\ UNCHANGED <<now, users, request, got, apiVars, cnVars, sysVars>>

\* process_meal after generate_advice: the meal log document is built and
\* insert_one is awaited
LogMealAdvisor(r, replies, micros) ==
  /\ pc[r] = "advisor"
  /\ \E reply \in replies, us \in micros :
       LET out == generate_advice(reply)
       IN  /\ seen' = [seen EXCEPT ![r].reply = reply]
           /\ IF out.ok
              THEN /\ local' = [local EXCEPT ![r].meal_log = MealLog(r, out.value, us)]
                   /\ pc' = [pc EXCEPT ![r] = "insert"]
                   /\ hist' = [hist EXCEPT ![r] = hist[r] \o <<"advisor_ok", "insert_call">>]
                   /\ UNCHANGED response
              ELSE Finish(r, MealLoggingFailed(out.msg), <<"advisor_fail">>)
  /\ UNCHANGED <<now, users, meal_logs, request, got, apiVars, cnVars, sysVars>>

\* (mutant) the response is stamped when it is built
LogMealResponseStampedLate(meal_log, inserted_id) ==
  IF NutritionDataValid(meal_log.nutrition)
  THEN [status |-> 200, detail |-> <<>>,
        body |-> [meal_id |-> inserted_id, dish_name |-> meal_log.dish_name,
                  nutrition |-> meal_log.nutrition, ai_advice |-> meal_log.ai_advice,
                  timestamp |-> Datetime(now, meal_log.timestamp.us)]]
  ELSE MealLoggingFailed(<<"1 validation error for NutritionData">>)

\* the LogMealResponse built once insert_one has returned: the id the store
\* gave, and the text, nutrition, advice and timestamp the handler holds
LogMealResponse(meal_log, inserted_id) ==
  IF NutritionDataValid(meal_log.nutrition)
  THEN [status |-> 200, detail |-> <<>>,
        body |-> [meal_id |-> inserted_id, dish_name |-> meal_log.dish_name,
                  nutrition |-> meal_log.nutrition, ai_advice |-> meal_log.ai_advice,
                  timestamp |-> meal_log.timestamp]]
  ELSE MealLoggingFailed(<<"1 validation error for NutritionData">>)

\* insert_one returns (or raises) and the response is built
LogMealInsert(r) ==
  /\ pc[r] = "insert"
  /\ \/ /\ Finish(r, MealLoggingFailed(<<"connection closed">>), <<"insert_fail">>)
        /\ UNCHANGED meal_logs
     \/ /\ meal_logs' = insert_one(meal_logs, BSONDocument(local[r].meal_log))
        /\ Finish(r, LogMealResponse(local[r].meal_log, meal_logs'[Len(meal_logs')]._id),
                  <<"insert_ok">>)
  /\ UNCHANGED <<now, users, request, got, seen, apiVars, cnVars, sysVars>>

\* the awaits of log_meal and of process_meal
LogMealAwaits == {"find_user", "read_meals", "nutrition", "advisor", "insert"}

\* (mutant) a handler cancelled while the Advisor is awaited leaves its
\* nutrition behind as a record without advice
CancelStoresPartial(r) ==
  /\ pc[r] \in LogMealAwaits
  /\ pc' = [pc EXCEPT ![r] = "cancelled"]
  /\ local' = [local EXCEPT ![r] = NoLocals]
  /\ hist' = [hist EXCEPT ![r] = hist[r] \o <<"cancelled">>]
  /\ IF pc[r] = "insert"
     THEN meal_logs' \in {meal_logs, insert_one(meal_logs, BSONDocument(local[r].meal_log))}
     ELSE IF pc[r] = "advisor"
          THEN meal_logs' = insert_one(meal_logs, BSONDocument(MealLog(r, <<>>, 0)))
          ELSE UNCHANGED meal_logs
  /\ UNCHANGED <<now, users, request, response, got, seen, apiVars, cnVars, sysVars>>

\* the task running log_meal is cancelled (the client went away, the server
\* shuts down): CancelledError is raised at the await the handler is suspended
\* at and no except clause of log_meal catches it, so the handler ends without
\* a response; an insert_one already handed to the driver is carried out or not
Cancel(r) ==
  /\ pc[r] \in LogMealAwaits
  /\ pc' = [pc EXCEPT ![r] = "cancelled"]
  /\ local' = [local EXCEPT ![r] = NoLocals]
  /\ hist' = [hist EXCEPT ![r] = hist[r] \o <<"cancelled">>]
  /\ IF pc[r] = "insert"
     THEN meal_logs' \in {meal_logs, insert_one(meal_logs, BSONDocument(local[r].meal_log))}
     ELSE UNCHANGED meal_logs
  /\ UNCHANGED <<now, users, request, response, got, seen, apiVars, cnVars, sysVars>>

Next ==
  \/ Tick
  \/ \E r \in Reqs :
       \/ LogMealStart(r, UserIdInputs)
       \/ LogMealFindUser(r)
       \/ LogMealReadMeals(r)
       \/ LogMealNutrition(r)
       \/ LogMealAdvisor(r, AdvisorReplies, OnTheTick)
       \/ LogMealInsert(r)

Spec == Init /\ [][Next]_vars

\* ------------------------------------------------------------------------
\* main.py: analyze_image and get_dashboard; requests arriving one at a time
\* ------------------------------------------------------------------------

\* the request slot of the log-meal requests that arrive one after the other
ApiReq == 1

\* the upload limit: 10 * 1024 * 1024 bytes
MaxImageBytes == 10 * 1024 * 1024

\* text.startswith(prefix), the text given in pieces
StartsWith(text, prefix) == text # <<>> /\ Head(text) = prefix

\* uploads: content types (None when the part carries none) and sizes in bytes
ContentTypes == {<<"image/", "jpeg">>, <<"text/", "plain">>, <<"None">>}

ImageSizes == {204800, MaxImageBytes, MaxImageBytes + 1}

\* what model.ainvoke can do
VisionReplies ==
  {[ok |-> TRUE, text |-> <<"Bowl of Lablabi with tuna and egg, approx 400g", "\n">>],
   [ok |-> FALSE, text |-> <<"429 Resource has been exhausted">>]}

\* VisionAgent.analyze_image: the stripped content, or the wrapped failure
VisionAgent_analyze_image(reply) ==
  IF reply.ok
  THEN [ok |-> TRUE, value |-> Strip(reply.text)]
  ELSE [ok |-> FALSE, msg |-> <<"Vision Agent failed: ">> \o reply.text]

\* except Exception as e: raise HTTPException(500, f"Image analysis failed: {e}")
ImageAnalysisFailed(msg) == HTTPException(500, <<"Image analysis failed: ">> \o msg)

\* except Exception as e: raise HTTPException(500, f"Dashboard fetch failed: {e}")
DashboardFetchFailed(msg) == HTTPException(500, <<"Dashboard fetch failed: ">> \o msg)

\* the analyze_image handler ends in resp
AnalyzeFinish(resp) ==
  analyze' = [analyze EXCEPT !.pc = "done", !.response = resp]

\* POST /analyze arrives: the content type is checked and image.read() awaited
AnalyzeStart ==
  /\ analyze.pc = "idle"
  /\ \E ct \in ContentTypes, size \in ImageSizes :
       LET image == [content_type |-> ct, size |-> size]
       IN  IF ct = <<"None">>
           THEN analyze' = [analyze EXCEPT !.pc = "done", !.image = image,
                  !.response = ImageAnalysisFailed(
                     <<"'NoneType' object has no attribute 'startswith'">>)]
           ELSE IF ~StartsWith(ct, "image/")
           THEN analyze' = [analyze EXCEPT !.pc = "done", !.image = image,
                  !.response = HTTPException(400,
                     <<"Invalid file type. Only images (JPEG/PNG) are supported.">>)]
           ELSE analyze' = [analyze EXCEPT !.pc = "read", !.image = image]
  /\ UNCHANGED <<reqVars, dashboard, cnVars, sysVars>>

\* (mutant) the upload is sent to the Vision Step before its size is checked
AnalyzeReadCallsFirst ==
  /\ analyze.pc = "read"
  /\ analyze' = [analyze EXCEPT
       !.calls = analyze.calls \o <<"vision_call">>,
       !.pc = IF analyze.image.size > MaxImageBytes THEN "done" ELSE "vision",
       !.response = IF analyze.image.size > MaxImageBytes
                    THEN HTTPException(400, <<"Image too large (max 10MB).">>)
                    ELSE NoResponse]
  /\ UNCHANGED <<reqVars, dashboard, cnVars, sysVars>>

\* image.read() returns: the size is checked and the Vision Step is awaited
AnalyzeRead ==
  /\ analyze.pc = "read"
  /\ IF analyze.image.size > MaxImageBytes
     THEN AnalyzeFinish(HTTPException(400, <<"Image too large (max 10MB).">>))
     ELSE analyze' = [analyze EXCEPT !.pc = "vision",
                                     !.calls = analyze.calls \o <<"vision_call">>]
  /\ UNCHANGED <<reqVars, dashboard, cnVars, sysVars>>

\* (mutant) the detected text is kept as a record of the meal store
AnalyzeVisionStores ==
  /\ analyze.pc = "vision"
  /\ \E reply \in VisionReplies :
       LET out == VisionAgent_analyze_image(reply)
       IN  /\ IF out.ok
              THEN AnalyzeFinish([status |-> 200, detail |-> <<>>,
                                  body |-> [detected_text |-> out.value]])
              ELSE AnalyzeFinish(ImageAnalysisFailed(out.msg))
           /\ meal_logs' = IF out.ok
                THEN insert_one(meal_logs,
                       [_id |-> 0, user_id |-> "None", timestamp |-> now,
                        dish_name |-> out.value, image_url |-> "None",
                        nutrition |-> ZeroNutrition, ai_advice |-> <<>>, by |-> ApiReq])
                ELSE meal_logs
  /\ UNCHANGED <<now, users, pc, request, local, response, got, hist, seen,
                 dashboard, cnVars, sysVars>>

\* the Vision Step returns or raises and the response is built
AnalyzeVision ==
  /\ analyze.pc = "vision"
  /\ \E reply \in VisionReplies :
       LET out == VisionAgent_analyze_image(reply)
       IN  /\ analyze' = [analyze EXCEPT
                  !.pc = "done",
                  !.reply = reply,
                  !.response = IF out.ok
                     THEN [status |-> 200, detail |-> <<>>,
                           body |-> [detected_text |-> out.value]]
                     ELSE ImageAnalysisFailed(out.msg)]
  /\ UNCHANGED <<reqVars, dashboard, cnVars, sysVars>>

\* the response of analyze_image has gone out
AnalyzeRelease ==
  /\ analyze.pc = "done"
  /\ analyze' = NoAnalyze
  /\ UNCHANGED <<reqVars, dashboard, cnVars, sysVars>>

\* total += nutrition.get(field, 0) over the meals, from 0.0
RECURSIVE TotalField(_, _)
TotalField(meals, field) ==
  IF meals = <<>> THEN FZero
  ELSE FAdd(TotalField(SubSeq(meals, 1, Len(meals) - 1), field),
            meals[Len(meals)].nutrition[field])

\* (mutant) the remaining calories never fall below zero
DashboardOfClamped(user_id, daily_goal, today_meals) ==
  LET total_calories == TotalField(today_meals, "calories")
      left == FSub(FloatOfInt(daily_goal), total_calories)
      remaining == IF FGe0(left) THEN left ELSE FZero
      totals == [calories |-> PyRound1(total_calories),
                 protein |-> PyRound1(TotalField(today_meals, "protein")),
                 carbs |-> PyRound1(TotalField(today_meals, "carbs")),
                 fats |-> PyRound1(TotalField(today_meals, "fats"))]
  IN  IF NutritionDataValid(totals)
      THEN [status |-> 200, detail |-> <<>>,
            body |-> [user_id |-> user_id, daily_goal |-> daily_goal,
                      total_consumed |-> PyRound1(total_calories),
                      remaining |-> PyRound1(remaining),
                      meals_today |-> Len(today_meals),
                      nutrition_totals |-> totals]]
      ELSE DashboardFetchFailed(<<"1 validation error for NutritionData">>)

\* the DashboardResponse built from the meals the cursor gave
DashboardOf(user_id, daily_goal, today_meals) ==
  LET total_calories == TotalField(today_meals, "calories")
      remaining == FSub(FloatOfInt(daily_goal), total_calories)
      totals == [calories |-> PyRound1(total_calories),
                 protein |-> PyRound1(TotalField(today_meals, "protein")),
                 carbs |-> PyRound1(TotalField(today_meals, "carbs")),
                 fats |-> PyRound1(TotalField(today_meals, "fats"))]
  IN  IF NutritionDataValid(totals)
      THEN [status |-> 200, detail |-> <<>>,
            body |-> [user_id |-> user_id, daily_goal |-> daily_goal,
                      total_consumed |-> PyRound1(total_calories),
                      remaining |-> PyRound1(remaining),
                      meals_today |-> Len(today_meals),
                      nutrition_totals |-> totals]]
      ELSE DashboardFetchFailed(<<"1 validation error for NutritionData">>)

\* the get_dashboard handler ends in resp
DashFinish(resp) ==
  dashboard' = [dashboard EXCEPT !.pc = "done", !.response = resp]

\* GET /dashboard/{user_id} arrives: the id is parsed and find_one is awaited
DashStart ==
  /\ dashboard.pc = "idle"
  /\ \E uid \in AllUserIds :
       IF ObjectIdValid(uid)
       THEN dashboard' = [dashboard EXCEPT !.pc = "find_user", !.user_id = uid]
       ELSE dashboard' = [dashboard EXCEPT !.pc = "done", !.user_id = uid,
              !.response = HTTPException(400, <<"Invalid user_id format.">>)]
  /\ UNCHANGED <<reqVars, analyze, cnVars, sysVars>>

\* find_one returns (or raises): the day starts and the cursor is awaited
DashFindUser ==
  /\ dashboard.pc = "find_user"
  /\ \/ dashboard' = [dashboard EXCEPT !.pc = "done", !.failed = <<"connection closed">>,
            !.response = DashboardFetchFailed(<<"connection closed">>)]
     \/ LET user == find_one(users, dashboard.user_id)
        IN  IF user = NoUser
            THEN DashFinish(HTTPException(404, <<"User not found.">>))
            ELSE dashboard' = [dashboard EXCEPT !.pc = "read_meals", !.user = user,
                                                !.today_start = DayStart(now)]
  /\ UNCHANGED <<reqVars, analyze, cnVars, sysVars>>

\* (mutant) the records of earlier days are deleted once the day's are read
DashReadMealsPrunes ==
  /\ dashboard.pc = "read_meals"
  /\ LET today_meals == FindToday(meal_logs, dashboard.user._id, dashboard.today_start)
         daily_goal == GetOr(dashboard.user, "daily_calorie_goal", DEFAULT_CALORIE_GOAL)
     IN  /\ dashboard' = [dashboard EXCEPT
               !.pc = "done",
               !.today_meals = today_meals,
               !.response = DashboardOf(dashboard.user_id, daily_goal, today_meals)]
         /\ meal_logs' = SelectSeq(meal_logs,
                           LAMBDA d : d.timestamp >= dashboard.today_start)
  /\ UNCHANGED <<now, users, pc, request, local, response, got, hist, seen,
                 analyze, cnVars, sysVars>>

\* the cursor over today's meals is read (or raises), the totals are summed
\* and the response is built
DashReadMeals ==
  /\ dashboard.pc = "read_meals"
  /\ \/ dashboard' = [dashboard EXCEPT !.pc = "done", !.failed = <<"connection closed">>,
            !.response = DashboardFetchFailed(<<"connection closed">>)]
     \/ LET today_meals == FindToday(meal_logs, dashboard.user._id, dashboard.today_start)
            daily_goal == GetOr(dashboard.user, "daily_calorie_goal", DEFAULT_CALORIE_GOAL)
        IN  dashboard' = [dashboard EXCEPT
              !.pc = "done",
              !.today_meals = today_meals,
              !.response = DashboardOf(dashboard.user_id, daily_goal, today_meals)]
  /\ UNCHANGED <<reqVars, analyze, cnVars, sysVars>>

\* the response of get_dashboard has gone out
DashRelease ==
  /\ dashboard.pc = "done"
  /\ dashboard' = NoDashboard
  /\ UNCHANGED <<reqVars, analyze, cnVars, sysVars>>

\* the response of log_meal has gone out (or its task is gone)
LogMealRelease(r) ==
  /\ pc[r] \in {"done", "cancelled"}
  /\ pc' = [pc EXCEPT ![r] = "idle"]
  /\ request' = [request EXCEPT ![r] = NoRequest]
  /\ local' = [local EXCEPT ![r] = NoLocals]
  /\ response' = [response EXCEPT ![r] = NoResponse]
  /\ got' = [got EXCEPT ![r] = NoResp]
  /\ hist' = [hist EXCEPT ![r] = <<>>]
  /\ seen' = [seen EXCEPT ![r] = NotSeen]
  /\ UNCHANGED <<now, users, meal_logs, apiVars, cnVars, sysVars>>

\* no handler is running
Quiet == pc[ApiReq] = "idle" /\ analyze.pc = "idle" /\ dashboard.pc = "idle"

\* one client sending its requests one after the other, log-meal requests
\* while the store holds fewer than MaxMeals records
NextApi ==
  \/ Tick
  \/ Quiet /\ Len(meal_logs) < MaxMeals /\ LogMealStart(ApiReq, AllUserIds)
  \/ LogMealFindUser(ApiReq)
  \/ LogMealReadMeals(ApiReq)
  \/ LogMealNutrition(ApiReq)
  \/ LogMealAdvisor(ApiReq, AdvisorReplies, OnTheTick)
  \/ LogMealInsert(ApiReq)
  \/ Cancel(ApiReq)
  \/ LogMealRelease(ApiReq)
  \/ Quiet /\ AnalyzeStart
  \/ AnalyzeRead
  \/ AnalyzeVision
  \/ AnalyzeRelease
  \/ Quiet /\ DashStart
  \/ DashFindUser
  \/ DashReadMeals
  \/ DashRelease

SpecApi == Init /\ [][NextApi]_vars

\* log-meal requests alone, one after the other, the clock read at any
\* microsecond
NextMeal ==
  \/ Tick
  \/ Len(meal_logs) < MaxMeals /\ LogMealStart(ApiReq, AllUserIds)
  \/ LogMealFindUser(ApiReq)
  \/ LogMealReadMeals(ApiReq)
  \/ LogMealNutrition(ApiReq)
  \/ LogMealAdvisor(ApiReq, AdvisorReplies, Micros)
  \/ LogMealInsert(ApiReq)
  \/ LogMealRelease(ApiReq)

SpecMeal == Init /\ [][NextMeal]_vars

\* ------------------------------------------------------------------------
\* calculate_nutrition on its own
\* ------------------------------------------------------------------------

InitCalc ==
  /\ Init
  /\ cnPc = "idle"

\* calculate_nutrition(food_description) is called: client.get is awaited
CalcGet ==
  /\ cnPc = "idle"
  /\ cnPc' = "awaiting"
  /\ cnGets' = cnGets + 1
  /\ UNCHANGED <<cnResp, cnOut, reqVars, apiVars, sysVars>>

\* client.get returns or raises, and calculate_nutrition ends
CalcReturn ==
  /\ cnPc = "awaiting"
  /\ \E resp \in CalcResponses :
       /\ cnResp' = resp
       /\ cnOut' = calculate_nutrition(resp)
  /\ cnPc' = "returned"
  /\ UNCHANGED <<cnGets, reqVars, apiVars, sysVars>>

NextCalc == CalcGet \/ CalcReturn

SpecCalc == InitCalc /\ [][NextCalc]_vars

\* ------------------------------------------------------------------------
\* the AI Council on its own: providers that may never answer
\* ------------------------------------------------------------------------

InitCouncil ==
  /\ InitServer
  /\ council \in {[NoCouncil EXCEPT !.env = e] : e \in EnvValues}
  /\ db = NoDb
  /\ life = NoLife
  /\ seed = NoSeed

\* the call the invocation is suspended at
PendingCall(i) == council.inv[i].calls[Len(council.inv[i].calls)]

\* get_ai_council() builds the agents (the Advisor reads ADVISOR_PROVIDER) and
\* analyze_image awaits the Vision model
CouncilAnalyze(i) ==
  /\ council.inv[i].pc = "idle"
  /\ council' = [council EXCEPT !.inv[i] =
       [pc |-> "vision", kind |-> "analyze",
        provider |-> AdvisorAgent_provider(council.env),
        calls |-> <<VisionCall>>, advice_calls |-> 0, outcome |-> "none"]]
  /\ UNCHANGED <<reqVars, apiVars, cnVars, db, life, seed>>

\* get_ai_council() builds the agents (the Advisor reads ADVISOR_PROVIDER) and
\* process_meal awaits calculate_nutrition
CouncilProcessMeal(i) ==
  /\ council.inv[i].pc = "idle"
  /\ council' = [council EXCEPT !.inv[i] =
       [pc |-> "nutrition", kind |-> "process_meal",
        provider |-> AdvisorAgent_provider(council.env),
        calls |-> <<NutritionCall>>, advice_calls |-> 0, outcome |-> "none"]]
  /\ UNCHANGED <<reqVars, apiVars, cnVars, db, life, seed>>

\* the provider awaited answers, well or badly: the Vision and Advisor steps
\* end the invocation, a nutrition result leads on to generate_advice
ProviderAnswers(i) ==
  /\ council.inv[i].pc \in {"vision", "nutrition", "advisor"}
  /\ \E ok \in BOOLEAN :
       council' = [council EXCEPT !.inv[i] =
         IF council.inv[i].pc = "nutrition" /\ ok
         THEN [@ EXCEPT !.pc = "advisor",
                        !.calls = @ \o AdvisorQueries(council.inv[i].provider),
                        !.advice_calls = @ + 1]
         ELSE [@ EXCEPT !.pc = "done",
                        !.outcome = IF ok THEN "result" ELSE "error"]]
  /\ UNCHANGED <<reqVars, apiVars, cnVars, db, life, seed>>

\* the timeout the code gave the call runs out: the step fails
CallTimesOut(i) ==
  /\ council.inv[i].pc \in {"vision", "nutrition", "advisor"}
  /\ PendingCall(i).explicit_timeout
  /\ council' = [council EXCEPT !.inv[i].pc = "done",
                                !.inv[i].outcome = "timeout"]
  /\ UNCHANGED <<reqVars, apiVars, cnVars, db, life, seed>>

\* a call the code gave no timeout ends, if at all, when the client library
\* or the transport gives up: nothing in the code says it does
ClientGivesUp(i) ==
  /\ council.inv[i].pc \in {"vision", "nutrition", "advisor"}
  /\ ~PendingCall(i).explicit_timeout
  /\ council' = [council EXCEPT !.inv[i].pc = "done",
                                !.inv[i].outcome = "client_error"]
  /\ UNCHANGED <<reqVars, apiVars, cnVars, db, life, seed>>

NextCouncil ==
  \E i \in Councils :
    \/ CouncilAnalyze(i)
    \/ CouncilProcessMeal(i)
    \/ ProviderAnswers(i)
    \/ CallTimesOut(i)
    \/ ClientGivesUp(i)

SpecCouncil == InitCouncil /\ [][NextCouncil]_vars

\* a provider need never answer and a client library need never give up; a
\* timeout the code set does run out
SpecCouncilLive ==
  InitCouncil /\ [][NextCouncil]_vars /\ \A i \in Councils : WF_vars(CallTimesOut(i))

\* ------------------------------------------------------------------------
\* database.py on its own: its three functions called in any order
\* ------------------------------------------------------------------------

InitDb ==
  /\ InitServer
  /\ council = NoCouncil
  /\ db = NoDb
  /\ life = NoLife
  /\ seed = NoSeed

\* what a call of database.py leaves in the record of calls
DbCall(op, connected, raised) == [op |-> op, connected |-> connected, raised |-> raised]

\* await connect_to_mongo()
DbConnect ==
  /\ Len(db.calls) < MaxDbCalls
  /\ \E ping_ok \in BOOLEAN :
       LET out == connect_to_mongo(db, ping_ok)
       IN  db' = [out.globals EXCEPT !.calls =
                    Append(@, DbCall("connect_to_mongo", Connected(out.globals), out.raised))]
  /\ UNCHANGED <<reqVars, apiVars, cnVars, council, life, seed>>

\* await close_mongo_connection()
DbClose ==
  /\ Len(db.calls) < MaxDbCalls
  /\ LET d == close_mongo_connection(db)
     IN  db' = [d EXCEPT !.calls =
                  Append(@, DbCall("close_mongo_connection", Connected(d), FALSE))]
  /\ UNCHANGED <<reqVars, apiVars, cnVars, council, life, seed>>

\* get_database() (get_users_collection(), get_meal_logs_collection())
DbGet ==
  /\ Len(db.calls) < MaxDbCalls
  /\ db' = [db EXCEPT !.calls =
              Append(@, DbCall("get_database", Connected(db), get_database(db).raised))]
  /\ UNCHANGED <<reqVars, apiVars, cnVars, council, life, seed>>

NextDb == DbConnect \/ DbClose \/ DbGet

SpecDb == InitDb /\ [][NextDb]_vars

\* ------------------------------------------------------------------------
\* the lifespan of the application
\* ------------------------------------------------------------------------

\* lifespan up to its yield: connect_to_mongo is awaited; if it raises, the
\* lifespan ends before the yield and the application does not start
LifespanStartup ==
  /\ life.pc = "created"
  /\ \E ping_ok \in BOOLEAN :
       LET out == connect_to_mongo(db, ping_ok)
       IN  /\ db' = out.globals
           /\ life' = [life EXCEPT
                !.pc = IF out.raised THEN "failed" ELSE "serving",
                !.events = Append(@, IF ping_ok THEN "connect" ELSE "connect_failed")]
  /\ UNCHANGED <<reqVars, apiVars, cnVars, council, seed>>

\* requests the application has taken so far
Served == Len(SelectSeq(life.events, LAMBDA e : e \in Endpoints))

\* between the yield and the shutdown the application hands a request to its
\* handler
RequestArrives(r) ==
  /\ life.pc = "serving"
  /\ life.handler[r] = "idle"
  /\ Served < MaxServed
  /\ \E endpoint \in Endpoints :
       life' = [life EXCEPT !.handler[r] = endpoint, !.events = Append(@, endpoint)]
  /\ UNCHANGED <<reqVars, apiVars, cnVars, council, db, seed>>

\* the handler returns or raises
RequestEnds(r) ==
  /\ life.handler[r] # "idle"
  /\ life' = [life EXCEPT !.handler[r] = "idle"]
  /\ UNCHANGED <<reqVars, apiVars, cnVars, council, db, seed>>

\* lifespan after its yield, once the server has let the running handlers
\* end: close_mongo_connection is awaited
LifespanShutdown ==
  /\ life.pc = "serving"
  /\ \A r \in Reqs : life.handler[r] = "idle"
  /\ db' = close_mongo_connection(db)
  /\ life' = [life EXCEPT !.pc = "stopped", !.events = Append(@, "close")]
  /\ UNCHANGED <<reqVars, apiVars, cnVars, council, seed>>

NextLife ==
  \/ LifespanStartup
  \/ LifespanShutdown
  \/ \E r \in Reqs : RequestArrives(r) \/ RequestEnds(r)

SpecLife == InitDb /\ [][NextLife]_vars

\* ------------------------------------------------------------------------
\* seed_db.py: seed_database run again and again, one run at a time
\* ------------------------------------------------------------------------

InitSeed ==
  /\ InitServer
  /\ council = NoCouncil
  /\ db = NoDb
  /\ life = NoLife
  /\ seed \in {[NoSeed EXCEPT !.users = store] : store \in SeedStores}

\* if existing_user:
Truthy(found) == found # <<>>

\* what a run of seed_database ends in
SeedEnds(outcome, store) ==
  seed' = [seed EXCEPT !.pc = "idle", !.users = store,
                       !.outcomes = Append(@, outcome)]

\* asyncio.run(seed_database()): the client is built and find_one is awaited
SeedRun ==
  /\ seed.pc = "idle"
  /\ seed.runs < MaxRuns
  /\ seed' = [seed EXCEPT !.pc = "find_one", !.runs = @ + 1]
  /\ UNCHANGED <<reqVars, apiVars, cnVars, council, db, life>>

\* (mutant) the test user is inserted whether or not it is there
SeedFindOneIgnored ==
  /\ seed.pc = "find_one"
  /\ \/ SeedEnds("error", seed.users)
     \/ seed' = [seed EXCEPT !.pc = "insert_one"]
  /\ UNCHANGED <<reqVars, apiVars, cnVars, council, db, life>>

\* find_one raises (the store cannot be reached), or returns: a user found
\* ends the run, otherwise insert_one is awaited
SeedFindOne ==
  /\ seed.pc = "find_one"
  /\ \/ SeedEnds("error", seed.users)
     \/ IF Truthy(find_one_by_username(seed.users, "test_user"))
        THEN SeedEnds("found", seed.users)
        ELSE seed' = [seed EXCEPT !.pc = "insert_one"]
  /\ UNCHANGED <<reqVars, apiVars, cnVars, council, db, life>>

\* insert_one returns, or raises with the document stored or not
SeedInsertOne ==
  /\ seed.pc = "insert_one"
  /\ \/ SeedEnds("created", insert_one(seed.users, TestUser))
     \/ SeedEnds("error", seed.users)
     \/ SeedEnds("error", insert_one(seed.users, TestUser))
  /\ UNCHANGED <<reqVars, apiVars, cnVars, council, db, life>>

NextSeed == SeedRun \/ SeedFindOne \/ SeedInsertOne

SpecSeed == InitSeed /\ [][NextSeed]_vars

\* ------------------------------------------------------------------------
\* properties of the pipeline (under Spec)
\* ------------------------------------------------------------------------

Has(h, e) == \E i \in DOMAIN h : h[i] = e

\* the stored records that request r inserted
RecordsBy(r) == {i \in DOMAIN meal_logs : meal_logs[i].by = r}

\* the provider answered with success and no items
NoItemsReply(resp) == resp.kind = "http" /\ resp.status = HTTP_OK /\ resp.items = <<>>

\* the lookup timed out, the network failed or the status was not success
TransportFailure(resp) ==
  resp.kind \in {"timeout", "network"} \/ (resp.kind = "http" /\ resp.status # HTTP_OK)

\* C1: within a request the Advisor is called only after the Nutrition Step of
\* that request has returned a result, and never once it has failed; a handler
\* that awaits the Advisor holds the result of a successful lookup.
AdvisorOnlyAfterNutrition ==
  \A r \in Reqs :
    /\ \A i \in DOMAIN hist[r] :
         hist[r][i] = "advisor_call" =>
           /\ i > 1
           /\ hist[r][i - 1] = "nutrition_ok"
           /\ \E j \in 1..(i - 1) : hist[r][j] = "nutrition_call"
    /\ Has(hist[r], "nutrition_fail") => ~Has(hist[r], "advisor_call")
    /\ Has(hist[r], "advisor_call") => calculate_nutrition(got[r]).ok

\* C1 witness: one request ended on a failed Nutrition Step without an Advisor
\* call while another reached the Advisor after a successful one
AdvisorOnlyAfterNutritionWitness ==
  \E r1, r2 \in Reqs :
    /\ pc[r1] = "done" /\ Has(hist[r1], "nutrition_fail")
    /\ pc[r2] = "advisor" /\ Has(hist[r2], "advisor_call")

\* C2: a request whose Nutrition Step or Advisor Step failed has inserted no
\* record.
FailedStepPersistsNothing ==
  \A r \in Reqs :
    (Has(hist[r], "nutrition_fail") \/ Has(hist[r], "advisor_fail"))
      => /\ RecordsBy(r) = {}
         /\ ~Has(hist[r], "insert_call")
         /\ pc[r] = "done" /\ response[r].status = 500

\* C2 witness: a request whose Advisor failed after its nutrition was computed,
\* beside a request that did store its record
FailedStepPersistsNothingWitness ==
  \E r1, r2 \in Reqs :
    /\ Has(hist[r1], "nutrition_ok") /\ Has(hist[r1], "advisor_fail")
    /\ RecordsBy(r2) # {}

\* C3 (as claimed): a finished request has inserted exactly one record if it
\* answered with success and none if it answered with an error.
ExactlyOneRecordPerSuccess ==
  \A r \in Reqs :
    pc[r] = "done" =>
      /\ response[r].status = 200 => Cardinality(RecordsBy(r)) = 1
      /\ response[r].status # 200 => RecordsBy(r) = {}

\* C4: the remaining calories handed to the Advisor are
\* daily_calorie_goal - (current_daily_total + nutrition.calories) in float
\* arithmetic, negative when the goal is exceeded; to one decimal place that is
\* goal - total - calories exactly.
RemainingPassedToAdvisor ==
  \A r \in Reqs :
    pc[r] = "advisor" =>
      LET goal == local[r].user.daily_calorie_goal
          total == local[r].current_daily_total
          calories == local[r].nutrition.calories
          remaining == local[r].advisor_args.remaining_calories
      IN  /\ remaining = FSub(FloatOfInt(goal), FAdd(total, calories))
          /\ Tenths(remaining) = 10 * goal - Tenths(total) - Tenths(calories)
          /\ local[r].advisor_args.total_calories = calories

\* C4 witness: an Advisor call with a negative remaining value, made after an
\* earlier meal of the day was counted
RemainingPassedToAdvisorWitness ==
  \E r \in Reqs :
    /\ pc[r] = "advisor"
    /\ local[r].advisor_args.remaining_calories.neg
    /\ local[r].current_daily_total # FZero

\* C4 (as claimed): the remaining value equals
\* daily_calorie_goal - current_daily_total - nutrition.calories exactly.
RemainingExactlyGoalMinusTotalMinusCalories ==
  \A r \in Reqs :
    pc[r] = "advisor" =>
      local[r].advisor_args.remaining_calories =
        FSub(FSub(FloatOfInt(local[r].user.daily_calorie_goal),
                  local[r].current_daily_total),
             local[r].nutrition.calories)

\* how a caller of the HTTP boundary tells outcomes apart: the status and the
\* leading piece of the detail
ResponseKind(resp) == <<resp.status, Head(resp.detail)>>

\* C7 (as claimed): at the log_meal boundary a no-items failure and a transport
\* failure of the Nutrition Step end in responses of different kinds.
NoItemsKeepsItsKind ==
  \A r1, r2 \in Reqs :
    (/\ pc[r1] = "done" /\ Has(hist[r1], "nutrition_fail") /\ NoItemsReply(got[r1])
     /\ pc[r2] = "done" /\ Has(hist[r2], "nutrition_fail") /\ TransportFailure(got[r2]))
      => ResponseKind(response[r1]) # ResponseKind(response[r2])

\* C10: every request whose insert returned has exactly one record of its own
\* in the store, whatever the other requests did meanwhile, and no two records
\* share an _id.
BothRecordsPersist ==
  /\ \A r \in Reqs : Has(hist[r], "insert_ok") => Cardinality(RecordsBy(r)) = 1
  /\ \A i, j \in DOMAIN meal_logs : meal_logs[i]._id = meal_logs[j]._id => i = j

\* C10 witness: two requests of one user have both inserted
BothRecordsPersistWitness ==
  \E r1, r2 \in Reqs :
    /\ r1 # r2
    /\ request[r1].user_id = request[r2].user_id
    /\ pc[r1] = "done" /\ Has(hist[r1], "insert_ok")
    /\ pc[r2] = "done" /\ Has(hist[r2], "insert_ok")
    /\ Len(meal_logs) = 2

\* the profile log_meal hands to process_meal for the user with this id
ProfileOf(uid) ==
  LET user == find_one(users, uid)
  IN  [health_goal |-> GetOr(user, "health_goal", "maintain"),
       daily_calorie_goal |-> GetOr(user, "daily_calorie_goal", DEFAULT_CALORIE_GOAL)]

\* the total of the day as the store held it when request r read it
TotalAsRead(r) ==
  TotalCalories(FindToday(SubSeq(meal_logs, 1, seen[r].read_at),
                          seen[r].user_id, seen[r].today_start))

\* C11: the remaining value a request hands to the Advisor is computed from
\* the day's total as the store held it when the request read it: records
\* inserted after that read, by a concurrent request of the same user among
\* them, are left out of it.
RemainingFromStaleTotal ==
  \A r \in Reqs :
    seen[r].advisor_args # <<>> =>
      seen[r].advisor_args.remaining_calories =
        Remaining(ProfileOf(seen[r].user_id), TotalAsRead(r),
                  [calories |-> seen[r].advisor_args.total_calories])

\* C11 witness: two requests of one user read the same empty day before either
\* inserted, both stored a meal, and each Advisor was told the goal less its
\* own meal only
RemainingFromStaleTotalWitness ==
  \E r1, r2 \in Reqs :
    /\ r1 # r2
    /\ seen[r1].user_id = seen[r2].user_id
    /\ seen[r1].read_at = 0 /\ seen[r2].read_at = 0
    /\ Has(hist[r1], "insert_ok") /\ Has(hist[r2], "insert_ok")
    /\ Len(FindToday(meal_logs, seen[r1].user_id, seen[r1].today_start)) = 2
    /\ \A r \in {r1, r2} :
         /\ Tenths(seen[r].advisor_args.total_calories) > 0
         /\ Tenths(seen[r].advisor_args.remaining_calories) =
              10 * ProfileOf(seen[r].user_id).daily_calorie_goal
                - Tenths(seen[r].advisor_args.total_calories)

\* C13 (as claimed): every summary calculate_nutrition returned and every
\* nutrition field of a stored record is non-negative.
NutritionNeverNegative ==
  /\ \A r \in Reqs :
       Has(hist[r], "nutrition_ok") => NutritionDataValid(calculate_nutrition(got[r]).value)
  /\ \A i \in DOMAIN meal_logs : NutritionDataValid(meal_logs[i].nutrition)

\* ------------------------------------------------------------------------
\* properties of the three handlers (under SpecApi)
\* ------------------------------------------------------------------------

\* the step adds doc to the end of the meal store and changes nothing else in it
Inserted(doc) ==
  /\ Len(meal_logs') = Len(meal_logs) + 1
  /\ SubSeq(meal_logs', 1, Len(meal_logs)) = meal_logs
  /\ meal_logs'[Len(meal_logs')] = [doc EXCEPT !._id = Len(meal_logs')]

\* the meal store changes only by gaining the one document of an invocation
\* whose Nutrition Step and Advisor Step both succeeded, carrying the results
\* of these two steps
StoreGainsCompleteRecord ==
  meal_logs' # meal_logs =>
    \E r \in Reqs :
      /\ Has(hist[r], "nutrition_ok") /\ Has(hist[r], "advisor_ok")
      /\ got[r].kind = "http" /\ got[r].status = HTTP_OK /\ got[r].items # <<>>
      /\ seen[r].reply.ok
      /\ \E doc \in {local[r].meal_log} :
           /\ Inserted(BSONDocument(doc))
           /\ doc.nutrition = NutritionOf(got[r].items)
           /\ doc.ai_advice = Strip(seen[r].reply.text)

\* C12: every record enters the meal store complete, with the nutrition summary
\* and the advice text of the one invocation that inserts it, both steps of
\* which succeeded, and is never changed afterwards; this holds when handlers
\* are cancelled at any of their awaits as well.
StoredRecordsAreComplete == [][StoreGainsCompleteRecord]_vars

\* C12 witness: a handler was cancelled while it awaited the Advisor, its
\* nutrition already computed, and the store holds what it held before: the
\* one complete record of an earlier request
StoredRecordsAreCompleteWitness ==
  /\ pc[ApiReq] = "cancelled"
  /\ Has(hist[ApiReq], "nutrition_ok") /\ ~Has(hist[ApiReq], "advisor_ok")
  /\ seen[ApiReq].read_at = 1
  /\ Len(meal_logs) = 1
  /\ meal_logs[1].ai_advice # <<>>

\* the day a clock reading falls on
DayOf(t) == t \div DayTicks

\* the records of user uid stamped on the day that starts at today_start
RecordsOfDay(uid, today_start) ==
  {i \in DOMAIN meal_logs :
     /\ meal_logs[i].user_id = uid
     /\ DayOf(meal_logs[i].timestamp) = DayOf(today_start)}

\* the exact sum, in tenths, of a nutrition field over a set of records
RECURSIVE SumTenths(_, _)
SumTenths(I, field) ==
  IF I = {} THEN 0
  ELSE LET i == CHOOSE j \in I : TRUE
       IN  Tenths(meal_logs[i].nutrition[field]) + SumTenths(I \ {i}, field)

\* the float written as the decimal with these tenths
Decimal1(tenths) == FloatOfRatio(tenths, 10)

Count(h, e) == Cardinality({i \in DOMAIN h : h[i] = e})

\* every piece of msg is part of text
Carries(text, msg) == \A i \in DOMAIN msg : Contains(text, msg[i])

\* C14: no step of an analyze request, whatever the upload and whatever the
\* Vision Step does, changes the user store or the meal store.
AnalyzeLeavesStores == [][analyze' # analyze => UNCHANGED <<users, meal_logs>>]_vars

\* C14 witness: an analysis has answered with the detected text while the meal
\* store holds a record
AnalyzeLeavesStoresWitness ==
  /\ analyze.pc = "done"
  /\ analyze.response.status = 200
  /\ analyze.calls = <<"vision_call">>
  /\ meal_logs # <<>>

\* C15: a dashboard answer holds, to the decimal, the sums of the four
\* nutrition fields over the records of that user stamped on the day of the
\* handler's clock reading, as the store holds them when it is read; records
\* of other users and of earlier days are left out; meals_today is their
\* number and remaining is the goal less the calories, negative when the goal
\* is exceeded.
DashboardIsSumOfTodaysRecords ==
  (dashboard.pc = "done" /\ dashboard.response.status = 200) =>
    LET body == dashboard.response.body
        today == RecordsOfDay(dashboard.user_id, dashboard.today_start)
        goal == GetOr(dashboard.user, "daily_calorie_goal", DEFAULT_CALORIE_GOAL)
    IN  /\ body.nutrition_totals.calories = Decimal1(SumTenths(today, "calories"))
        /\ body.nutrition_totals.protein = Decimal1(SumTenths(today, "protein"))
        /\ body.nutrition_totals.carbs = Decimal1(SumTenths(today, "carbs"))
        /\ body.nutrition_totals.fats = Decimal1(SumTenths(today, "fats"))
        /\ body.total_consumed = body.nutrition_totals.calories
        /\ body.meals_today = Cardinality(today)
        /\ body.daily_goal = goal
        /\ body.remaining = Decimal1(10 * goal - SumTenths(today, "calories"))

\* C15 witness: a dashboard answer over a store that also holds a record of
\* another user and a record of an earlier day of the same user, the goal
\* exceeded
DashboardIsSumOfTodaysRecordsWitness ==
  /\ dashboard.pc = "done" /\ dashboard.response.status = 200
  /\ dashboard.response.body.meals_today = 1
  /\ dashboard.response.body.remaining.neg
  /\ \E i, j \in DOMAIN meal_logs :
       /\ meal_logs[i].user_id # dashboard.user_id
       /\ meal_logs[j].user_id = dashboard.user_id
       /\ meal_logs[j].timestamp < dashboard.today_start

\* what a reader of the day's meals was given: of the records of its user, the
\* one stamped at the first instant of the day is among them and the one
\* stamped one tick earlier is not
BoundaryKept(today_meals, uid, today_start) ==
  /\ today_start % DayTicks = 0
  /\ \A i \in DOMAIN meal_logs :
       meal_logs[i].user_id = uid =>
         /\ meal_logs[i].timestamp = today_start =>
              \E k \in DOMAIN today_meals : today_meals[k] = meal_logs[i]
         /\ meal_logs[i].timestamp = today_start - 1 =>
              \A k \in DOMAIN today_meals : today_meals[k] # meal_logs[i]

\* C16: both in log_meal and in get_dashboard, a record stamped at the first
\* instant of the day counts as today's and a record stamped one tick (the
\* smallest step of the clock) before it does not; the total and the number of
\* meals are those of the records given.
DayBoundaryInclusion ==
  /\ pc[ApiReq] \in {"nutrition", "advisor", "insert"} =>
       /\ BoundaryKept(local[ApiReq].today_meals, local[ApiReq].user._id,
                       local[ApiReq].today_start)
       /\ local[ApiReq].current_daily_total = TotalCalories(local[ApiReq].today_meals)
  /\ (dashboard.pc = "done" /\ dashboard.response.status = 200) =>
       /\ BoundaryKept(dashboard.today_meals, dashboard.user_id, dashboard.today_start)
       /\ dashboard.response.body.meals_today = Len(dashboard.today_meals)
       /\ dashboard.response.body.total_consumed =
            PyRound1(TotalField(dashboard.today_meals, "calories"))

\* C16 witness: a log-meal request reads the day's total while the store holds
\* a record of its user stamped at the day's first instant and another stamped
\* one tick before it; its total is the calories of the first
DayBoundaryInclusionWitness ==
  /\ pc[ApiReq] = "advisor"
  /\ \E i, j \in DOMAIN meal_logs :
       /\ meal_logs[i].user_id = local[ApiReq].user._id
       /\ meal_logs[j].user_id = local[ApiReq].user._id
       /\ meal_logs[i].timestamp = local[ApiReq].today_start
       /\ meal_logs[j].timestamp = local[ApiReq].today_start - 1
       /\ local[ApiReq].current_daily_total = meal_logs[i].nutrition.calories

\* the total a log-meal request read is, to the decimal, the sum of the
\* calories of the records of its user stored so far on its day, and the
\* remaining value it hands to the Advisor is the goal less that sum less its
\* own calories
TotalIsSumOfStoredRecords ==
  pc[ApiReq] = "advisor" =>
    LET today == RecordsOfDay(local[ApiReq].user._id, local[ApiReq].today_start)
        args == local[ApiReq].advisor_args
    IN  /\ PyRound1(local[ApiReq].current_daily_total) =
             Decimal1(SumTenths(today, "calories"))
        /\ Tenths(args.remaining_calories) =
             10 * local[ApiReq].user.daily_calorie_goal
               - SumTenths(today, "calories") - Tenths(args.total_calories)

\* a request that ends in an error has added nothing to the store
FailedRequestAddsNothing ==
  (pc[ApiReq] # "done" /\ pc'[ApiReq] = "done" /\ response'[ApiReq].status # 200)
    => meal_logs' = meal_logs

\* C17 (as claimed): when requests do not overlap, the total handed to
\* process_meal is the sum of the calories of that user's records stored so
\* far today, which are those of the requests that succeeded: a request that
\* failed contributes nothing.
TotalCountsSuccessfulRequestsOnly ==
  []TotalIsSumOfStoredRecords /\ [][FailedRequestAddsNothing]_vars

\* a log-meal request was rejected for its user id or its user
LogMealRejected(r) == pc[r] = "done" /\ response[r].status \in {400, 404}

\* an analyze request was rejected for its content type or its size
AnalyzeRejected == analyze.pc = "done" /\ analyze.response.status = 400

\* a rejected request has called no provider and asked for no insert
RejectedMadeNoCall ==
  /\ LogMealRejected(ApiReq) => hist[ApiReq] = <<>>
  /\ AnalyzeRejected => analyze.calls = <<>>

\* the steps a handler takes before its pipeline starts, the rejecting step
\* among them, leave the stores as they are
StepsBeforePipelineLeaveStores ==
  (\/ pc[ApiReq] \in {"idle", "find_user"} /\ pc'[ApiReq] # pc[ApiReq]
   \/ analyze.pc \in {"idle", "read"} /\ analyze' # analyze)
    => UNCHANGED <<users, meal_logs>>

\* C18: a log-meal request with a malformed user id or an unknown user, and an
\* analyze request with a content type that is no image or with more than
\* 10MB of data, end in an error without a Vision, Nutrition or Advisor call
\* and with the stores unchanged.
RejectedBeforePipeline ==
  []RejectedMadeNoCall /\ [][StepsBeforePipelineLeaveStores]_vars

\* C18 witness: an upload of an image type one byte over the limit was
\* rejected while the store holds a record
RejectedBeforePipelineWitness ==
  /\ AnalyzeRejected
  /\ StartsWith(analyze.image.content_type, "image/")
  /\ analyze.image.size = MaxImageBytes + 1
  /\ meal_logs # <<>>

\* C19: within one log-meal request the nutrition provider is called at most
\* once and the Advisor provider at most once, and within one analyze request
\* the Vision provider at most once, whatever they answer.
NoRetries ==
  /\ \A r \in Reqs :
       /\ Count(hist[r], "nutrition_call") <= 1
       /\ Count(hist[r], "advisor_call") <= 1
       /\ Count(hist[r], "insert_call") <= 1
  /\ Count(analyze.calls, "vision_call") <= 1

\* C19 witness: a request ended on a lookup that timed out, after one call
NoRetriesWitness ==
  /\ pc[ApiReq] = "done"
  /\ got[ApiReq].kind = "timeout"
  /\ Count(hist[ApiReq], "nutrition_call") = 1
  /\ Has(hist[ApiReq], "nutrition_fail")

\* a log-meal answer of success stands for steps that all succeeded and holds
\* their results; a failed step ends the request in an error with its message
LogMealSurfacesErrors(r) ==
  pc[r] = "done" =>
    /\ response[r].status = 200 =>
         /\ got[r].kind = "http" /\ got[r].status = HTTP_OK /\ got[r].items # <<>>
         /\ seen[r].reply.ok
         /\ Has(hist[r], "insert_ok")
         /\ response[r].body.nutrition = NutritionOf(got[r].items)
         /\ response[r].body.ai_advice = Strip(seen[r].reply.text)
    /\ (got[r] # NoResp /\ ~calculate_nutrition(got[r]).ok) =>
         /\ response[r].status = 500
         /\ Carries(response[r].detail, calculate_nutrition(got[r]).msg)
    /\ (seen[r].reply # NoReply /\ ~seen[r].reply.ok) =>
         /\ response[r].status = 500
         /\ Carries(response[r].detail, seen[r].reply.text)
    /\ (\E e \in {"find_one_fail", "find_fail", "insert_fail"} : Has(hist[r], e)) =>
         /\ response[r].status = 500
         /\ Carries(response[r].detail, <<"connection closed">>)

\* C20: an analyze, log-meal or dashboard request answers with success only if
\* every step it ran succeeded, and then with the results of these steps; when
\* the Vision, Nutrition or Advisor step or a store operation fails, it ends
\* in an error response that carries the failure's message.
NoErrorSwallowed ==
  /\ \A r \in Reqs : LogMealSurfacesErrors(r)
  /\ analyze.pc = "done" =>
       /\ analyze.response.status = 200 =>
            /\ analyze.reply.ok
            /\ analyze.response.body.detected_text = Strip(analyze.reply.text)
       /\ (analyze.reply # NoReply /\ ~analyze.reply.ok) =>
            /\ analyze.response.status = 500
            /\ Carries(analyze.response.detail, analyze.reply.text)
  /\ dashboard.pc = "done" =>
       /\ dashboard.response.status = 200 => dashboard.failed = <<>>
       /\ dashboard.failed # <<>> =>
            /\ dashboard.response.status = 500
            /\ Carries(dashboard.response.detail, dashboard.failed)

\* C20 witness: the Advisor failed after the nutrition was computed and the
\* request ended in an error with the Advisor's message
NoErrorSwallowedWitness ==
  /\ pc[ApiReq] = "done"
  /\ Has(hist[ApiReq], "nutrition_ok")
  /\ seen[ApiReq].reply # NoReply /\ ~seen[ApiReq].reply.ok
  /\ response[ApiReq].status = 500

\* ------------------------------------------------------------------------
\* properties of calculate_nutrition (under SpecCalc)
\* ------------------------------------------------------------------------

Abs(n) == IF n < 0 THEN -n ELSE n

\* the exact sum, in hundredths, of a field over all items (absent: 0)
RECURSIVE ExactSum(_, _)
ExactSum(items, key) ==
  IF items = <<>> THEN 0
  ELSE (IF key \in DOMAIN Head(items) THEN Head(items)[key] ELSE 0)
       + ExactSum(Tail(items), key)

\* the item lists that hold the same items in another order
Reorderings(items) ==
  {[i \in DOMAIN items |-> items[p[i]]] : p \in Permutations(DOMAIN items)}

\* a returned field is a one-decimal value nearest to the exact sum of all
\* items, either neighbour when the exact sum ends in 5 hundredths; away from
\* such a tie every order of the items gives the same value
FieldIsRoundedSum(items, key, field) ==
  LET value == NutritionOf(items)[field]
      exact == ExactSum(items, key)
  IN  /\ value = FloatOfRatio(Tenths(value), 10)
      /\ Abs(10 * Tenths(value) - exact) <= 5
      /\ exact % 10 # 5 =>
           \A other \in Reorderings(items) : NutritionOf(other)[field] = value

NoItemsAlwaysFails ==
  (cnPc = "returned" /\ NoItemsReply(cnResp)) =>
    /\ ~cnOut.ok
    /\ cnOut.msg = NoItemsMessage

\* C6 witness: calculate_nutrition has returned on a reply without items
NoItemsAlwaysFailsWitness ==
  cnPc = "returned" /\ NoItemsReply(cnResp) /\ cnGets = 1

\* the test by which calculate_nutrition itself recognises the no-items error
IsNoItemsError(out) == ~out.ok /\ Contains(out.msg, NO_ITEMS)

\* C8 (as claimed): the no-items error is raised exactly when the provider
\* answered with success and no items.
NoItemsErrorOnlyForNoItems ==
  cnPc = "returned" => (IsNoItemsError(cnOut) <=> NoItemsReply(cnResp))

\* C9: a timeout of the lookup ends in the timeout error, which is neither the
\* no-items error nor the wrapped generic one, and the lookup is made once.
TimeoutIsItsOwnError ==
  /\ cnGets <= 1
  /\ (cnPc = "returned" /\ cnResp.kind = "timeout") =>
       /\ ~cnOut.ok
       /\ cnOut.msg = TimeoutMessage
       /\ ~IsNoItemsError(cnOut)
       /\ Head(cnOut.msg) # "Nutrition calculation failed: "
       /\ cnGets = 1

\* C9 witness: calculate_nutrition has returned after a timeout
TimeoutIsItsOwnErrorWitness ==
  cnPc = "returned" /\ cnResp.kind = "timeout" /\ ~cnOut.ok

\* ------------------------------------------------------------------------
\* properties of the AI Council on its own (under SpecCouncil, SpecCouncilLive)
\* ------------------------------------------------------------------------

\* every provider call made was given a timeout by the code
EveryCallHasExplicitTimeout ==
  \A i \in Councils : \A k \in DOMAIN council.inv[i].calls :
    council.inv[i].calls[k].explicit_timeout

\* C21 (as claimed): every analyze and every process_meal invocation ends,
\* with a result or an error, even when the provider it awaits never answers.
EveryInvocationTerminates ==
  \A i \in Councils : (council.inv[i].pc # "idle") ~> (council.inv[i].pc = "done")

\* the steps whose call the code gave a timeout do end: the Nutrition Step,
\* and the Advisor Step when the provider is OpenRouter
TimedStepsEnd ==
  \A i \in Councils :
    /\ (council.inv[i].pc = "nutrition") ~> (council.inv[i].pc # "nutrition")
    /\ (council.inv[i].pc = "advisor" /\ council.inv[i].provider = "openrouter")
         ~> (council.inv[i].pc = "done")

\* the calls an invocation made to an Advisor provider
AdvisorCalls(i) ==
  SelectSeq(council.inv[i].calls, LAMBDA c : c.to \in {"groq", "openrouter"})

\* C23: all advice calls of the process go to one and the same provider, the
\* one ADVISOR_PROVIDER names in the environment the process started with
\* (groq when it is unset), and each generate_advice call queries exactly
\* one provider.
OneAdvisorProvider ==
  /\ \A i, j \in Councils :
       \A a \in DOMAIN AdvisorCalls(i), b \in DOMAIN AdvisorCalls(j) :
         AdvisorCalls(i)[a].to = AdvisorCalls(j)[b].to
  /\ \A i \in Councils :
       /\ Len(AdvisorCalls(i)) = council.inv[i].advice_calls
       /\ \A a \in DOMAIN AdvisorCalls(i) :
            /\ council.env = "openrouter" => AdvisorCalls(i)[a].to = "openrouter"
            /\ council.env \in {"unset", "groq"} => AdvisorCalls(i)[a].to = "groq"
            /\ AdvisorCalls(i)[a].to = council.inv[i].provider
                 \/ (AdvisorCalls(i)[a].to = "groq"
                       /\ council.inv[i].provider # "openrouter")

\* C23 witness: with ADVISOR_PROVIDER=openrouter two invocations of process_meal
\* have each asked for advice
OneAdvisorProviderWitness ==
  /\ council.env = "openrouter"
  /\ \A i \in Councils :
       council.inv[i].advice_calls = 1 /\ Len(AdvisorCalls(i)) = 1

\* ------------------------------------------------------------------------
\* properties of database.py on its own (under SpecDb)
\* ------------------------------------------------------------------------

\* C25 (as claimed): get_database raises RuntimeError whenever the database is
\* not connected (never connected, ping failed, closed) and returns a handle
\* only while a successfully established connection is open.
GetDatabaseRaisesUnlessConnected ==
  \A k \in DOMAIN db.calls :
    db.calls[k].op = "get_database" =>
      (db.calls[k].raised <=> ~db.calls[k].connected)

\* what does hold: get_database raises exactly as long as connect_to_mongo
\* has never been called
GetDatabaseRaisesBeforeFirstConnect ==
  \A k \in DOMAIN db.calls :
    db.calls[k].op = "get_database" =>
      (db.calls[k].raised <=>
         \A j \in 1..(k - 1) : db.calls[j].op # "connect_to_mongo")

\* ------------------------------------------------------------------------
\* properties of the lifespan (under SpecLife)
\* ------------------------------------------------------------------------

\* C24: the connection is established once, first of all and before any
\* request is handed to a handler, and closed once, after the last request;
\* an application whose connection attempt failed takes no request.
ConnectedOnceAroundRequests ==
  /\ Count(life.events, "connect") + Count(life.events, "connect_failed") <= 1
  /\ Count(life.events, "close") <= 1
  /\ \A k \in DOMAIN life.events :
       life.events[k] \in Endpoints =>
         /\ life.events[1] = "connect"
         /\ \A j \in 1..k : life.events[j] # "close"
  /\ \A r \in Reqs : life.handler[r] # "idle" => life.pc = "serving"
  /\ life.pc = "serving" =>
       Connected(db) /\ Count(life.events, "connect") = 1
                     /\ Count(life.events, "close") = 0
  /\ life.pc = "stopped" =>
       ~Connected(db) /\ Count(life.events, "connect") = 1
                      /\ life.events[Len(life.events)] = "close"
  /\ life.pc = "failed" => life.events = <<"connect_failed">>

\* C24 witness: the application connected, served requests and shut down
ConnectedOnceAroundRequestsWitness ==
  life.pc = "stopped" /\ Served >= 2 /\ db.client = "closed"

\* ------------------------------------------------------------------------
\* properties of seed_database (under SpecSeed)
\* ------------------------------------------------------------------------

\* the users named test_user
TestUsers(store) == {i \in DOMAIN store : store[i].username = "test_user"}

\* a run of seed_database has gone through (it found or created the user)
SeedCompleted == Has(seed.outcomes, "found") \/ Has(seed.outcomes, "created")

\* C27: at no time does the users store hold more than one test_user, after
\* every run that went through it holds exactly one, and once it holds one no
\* run writes anything.
SeedingIsIdempotent ==
  /\ [](/\ Cardinality(TestUsers(seed.users)) <= 1
        /\ SeedCompleted => Cardinality(TestUsers(seed.users)) = 1)
  /\ [][TestUsers(seed.users) # {} => seed'.users = seed.users]_vars

\* C27 witness: three runs in a row, the first created the user and the next
\* two found it
SeedingIsIdempotentWitness ==
  /\ seed.outcomes = <<"created", "found", "found">>
  /\ Cardinality(TestUsers(seed.users)) = 1

\* ------------------------------------------------------------------------
\* properties of the meal store and of log_meal (under SpecApi, SpecMeal)
\* ------------------------------------------------------------------------

\* every stored record stays, with all its values
RecordsKept ==
  /\ Len(meal_logs') >= Len(meal_logs)
  /\ \A i \in DOMAIN meal_logs : meal_logs'[i] = meal_logs[i]

\* C22: no step of analyze, log-meal or dashboard changes or removes a stored
\* record: the store only grows and each record keeps the values it was
\* inserted with.
MealRecordsNeverChange == [][RecordsKept]_vars

\* C22 witness: the dashboard has been served from a store of two records and
\* the store still holds them
MealRecordsNeverChangeWitness ==
  /\ dashboard.pc = "done" /\ dashboard.response.status = 200
  /\ Len(dashboard.today_meals) = 1
  /\ Len(meal_logs) = 2

\* the stored record a successful response names
RecordOf(r) == meal_logs[response[r].body.meal_id]

\* the record holds what process_meal returned for the request, and the
\* response carries the record's id, text, nutrition and advice
RecordHoldsPipelineResult(r) ==
  /\ response[r].body.meal_id \in DOMAIN meal_logs
  /\ RecordOf(r)._id = response[r].body.meal_id
  /\ RecordOf(r).nutrition = calculate_nutrition(got[r]).value
  /\ RecordOf(r).ai_advice = generate_advice(seen[r].reply).value
  /\ RecordOf(r).dish_name = request[r].verified_text
  /\ RecordOf(r).user_id = request[r].user_id
  /\ response[r].body.nutrition = RecordOf(r).nutrition
  /\ response[r].body.ai_advice = RecordOf(r).ai_advice
  /\ response[r].body.dish_name = RecordOf(r).dish_name

\* log_meal has answered request r with success
LogMealSucceeded(r) == pc[r] = "done" /\ response[r].status = 200

\* C26: on success the stored record holds the nutrition and advice that
\* process_meal returned, the request's text and user, and the response
\* carries the record's id, text, nutrition and advice; the response's
\* timestamp is the record's up to the microseconds past the millisecond,
\* which the store does not keep.
RecordAndResponseAgree ==
  \A r \in Reqs :
    LogMealSucceeded(r) =>
      /\ RecordHoldsPipelineResult(r)
      /\ BSONDate(response[r].body.timestamp) = RecordOf(r).timestamp

\* C26 witness: the second record was stamped between two milliseconds and
\* stored, and the response is out
RecordAndResponseAgreeWitness ==
  /\ LogMealSucceeded(ApiReq)
  /\ response[ApiReq].body.meal_id = 2
  /\ response[ApiReq].body.timestamp.us # 0
  /\ now > RecordOf(ApiReq).timestamp

\* C26 (as claimed): the response carries the same timestamp as the stored
\* record.
ResponseTimestampIsTheStoredOne ==
  \A r \in Reqs :
    LogMealSucceeded(r) =>
      /\ RecordHoldsPipelineResult(r)
      /\ response[r].body.timestamp = DatetimeOfBSON(RecordOf(r).timestamp)

====
